---- MODULE Spec2Model ----
(***************************************************************************)
(* State-machine model of the ingestion facade (service/embedding.py:      *)
(* generate_chunks, generate_embeddings, generate_summary_documents) and   *)
(* of the retrieval facade (service/router.py: query, get_documents).      *)
(* One run of the model is one call of one of the four operations; the     *)
(* collaborators (downloader, partitioner, chunker, encoder, vector store, *)
(* summarizer, route layer) are nondeterministic choices over the results  *)
(* they can hand back, including raising.                                  *)
(***************************************************************************)
EXTENDS Integers, Sequences, FiniteSets, TLC

VARIABLES
    op,          \* which facade operation this run is a call of
    pc,          \* "run" while the call executes, then "done" (returned) or "raised"
    \* ---- generate_chunks
    files,       \* self.files
    fileIdx,     \* number of files the for loop has finished with
    doc_chunks,  \* the list generate_chunks builds and returns
    uuid,        \* number of uuid4() values drawn so far (each one is fresh)
    fileLog,     \* history: per finished file, what the collaborators handed back
    \* ---- generate_embeddings
    documents,   \* the list of chunks passed in
    slots,       \* per task of asyncio.gather: pending, or done with its return value
    encLog,      \* history: per chunk, whether its encoder call succeeded
    taskOrder,   \* history: the order in which the tasks finished
    vsBuilt,     \* number of get_vector_service() calls
    upserts,     \* the batches handed to vector_service.upsert, in call order
    upsertLog,   \* history: outcome of the upsert call
    embeddings,  \* the list generate_embeddings returns
    \* ---- generate_summary_documents
    heap,        \* the chunk objects, by reference: heap[r] is object r's fields
    sdocs,       \* the list passed in: references to chunk objects
    inputs,      \* history: the fields of the passed chunks at the time of the call
    sIdx,        \* number of chunks the for loop has finished with
    pages,       \* the dict `pages`, in insertion order: <<page_number, reference>>
    summLog,     \* history: the completion() calls, <<position of the seed chunk, content passed>>
    summary_documents, \* the list returned: references
    \* ---- query / get_documents
    payload,     \* the RequestPayload
    qstep,       \* where the request is: "route", "query", "rerank", "end"
    decision,    \* rl(payload.input).name
    services,    \* the index names get_vector_service was called with, in call order
    storeCalls,  \* history: the query and rerank calls, with the service instance used
    candidates,  \* `chunks` in get_documents: what vector_service.query returned
    reranked     \* what query() returns

chunkVars == <<files, fileIdx, doc_chunks, uuid, fileLog>>
embVars == <<documents, slots, encLog, taskOrder, vsBuilt, upserts, upsertLog, embeddings>>
sumVars == <<heap, sdocs, inputs, sIdx, pages, summLog, summary_documents>>
queryVars == <<payload, qstep, decision, services, storeCalls, candidates, reranked>>
vars == <<op, pc, chunkVars, embVars, sumVars, queryVars>>

(***************************************************************************)
(* Bounds of the model.                                                    *)
(***************************************************************************)
MaxFiles == 2
MaxChunksPerFile == 2
MaxDocs == 3
MaxSummaryDocs == 3
MaxCandidates == 2

\* All sequences over S of length at most n.
SeqUpTo(S, n) == UNION {[1..k -> S] : k \in 0..n}

(***************************************************************************)
(* Python values that end up in a metadata dict: t is the Python type, v   *)
(* the printed value.  A dict is a function from its keys to such values.  *)
(***************************************************************************)
PyStr(s) == [t |-> "str", v |-> s]
PyInt(s) == [t |-> "int", v |-> s]
PyObj(s) == [t |-> "object", v |-> s]

\* isinstance(value, (str, int, float, bool, list))
IsPrimitive(value) == value.t \in {"str", "int", "float", "bool", "list"}

\* str(value) of a non-primitive object
StrOf(value) == PyStr("<" \o value.v \o ">")

\* The dict comprehension of generate_chunks: non-primitive values become str.
Sanitize(md) == [key \in DOMAIN md |-> IF IsPrimitive(md[key]) THEN md[key] ELSE StrOf(md[key])]

\* {**base, **over}: a key of `over` replaces the same key of `base`.
DictMerge(base, over) ==
    [key \in (DOMAIN base) \cup (DOMAIN over) |->
        IF key \in DOMAIN over THEN over[key] ELSE base[key]]

(***************************************************************************)
(* _get_datasource_suffix                                                  *)
(***************************************************************************)
suffixes ==
    [TXT |-> ".txt", PDF |-> ".pdf", MARKDOWN |-> ".md",
     DOCX |-> ".docx", CSV |-> ".csv", XLSX |-> ".xlsx"]

\* TRUE when suffixes[type] raises KeyError, re-raised as ValueError.
SuffixRaises(type) == type \notin DOMAIN suffixes

_get_datasource_suffix(type) == suffixes[type]

(***************************************************************************)
(* Inputs of generate_chunks.                                              *)
(***************************************************************************)
\* The files a caller can pass: two supported ones and one whose type has no suffix.
Files ==
    { [url |-> "u1", type |-> "TXT"],
      [url |-> "u2", type |-> "PDF"],
      [url |-> "u3", type |-> "PPTX"] }

\* What partition() can hand back: the texts of the elements.
ElementLists == { <<>>, <<"">>, <<"x">>, <<"x", "y">> }

\* What chunk_by_title() can hand back: chunks with a text and a metadata dict.
\* The first one carries a non-primitive value, the second one keys that the
\* wrapper itself also writes.
ChunkInputs ==
    { [text |-> "a", metadata |-> [page_number |-> PyInt("1"), coordinates |-> PyObj("box")]],
      [text |-> "b", metadata |-> [content |-> PyStr("zzz"), chunk_id |-> PyStr("chk_x"),
                                   document_id |-> PyStr("doc_x")]] }

ChunkLists == SeqUpTo(ChunkInputs, MaxChunksPerFile)

(***************************************************************************)
(* generate_document                                                       *)
(***************************************************************************)
RECURSIVE Join(_)
\* "".join(element.text for element in elements)
Join(texts) == IF texts = <<>> THEN "" ELSE Head(texts) \o Join(Tail(texts))

\* generate_document: None when the joined text is empty, else the document,
\* whose id takes uuid4() number n.
generate_document(file, texts, n) ==
    LET doc_content == Join(texts)
    IN  IF doc_content = ""
        THEN [none |-> TRUE, id |-> "", content |-> ""]
        ELSE [none |-> FALSE, id |-> "doc_" \o ToString(n), content |-> doc_content]

(***************************************************************************)
(* The body of `for chunk in chunks` for one chunk.                        *)
(***************************************************************************)
\* metadata={"chunk_id": ..., ..., "content": chunk.text, **sanitized_metadata}
ChunkMetadata(file, document_id, chunk_id, chunk) ==
    DictMerge(
        [chunk_id |-> PyStr(chunk_id), document_id |-> PyStr(document_id),
         source |-> PyStr(file.url), source_type |-> PyStr("document"),
         document_type |-> PyStr(_get_datasource_suffix(file.type)),
         content |-> PyStr(chunk.text)],
        Sanitize(chunk.metadata))

BaseDocumentChunk(file, document_id, chunk_id, chunk) ==
    [id |-> chunk_id, document_id |-> document_id, content |-> chunk.text,
     doc_url |-> file.url, metadata |-> ChunkMetadata(file, document_id, chunk_id, chunk)]

RECURSIVE WrapChunks(_, _, _, _, _, _, _)
\* The for loop over chunks: appends to `acc` (doc_chunks itself) chunk by chunk;
\* when wrapping chunk number failAt raises, the loop is left with what was
\* appended so far.  k is the number of the next chunk, n the uuid counter.
WrapChunks(file, document_id, chunks, failAt, k, n, acc) ==
    IF k > Len(chunks) THEN [doc_chunks |-> acc, uuid |-> n, raised |-> FALSE]
    ELSE IF k = failAt THEN [doc_chunks |-> acc, uuid |-> n, raised |-> TRUE]
    ELSE WrapChunks(file, document_id, chunks, failAt, k + 1, n + 1,
            Append(acc, BaseDocumentChunk(file, document_id, "chk_" \o ToString(n + 1), chunks[k])))

(***************************************************************************)
(* The body of `for file in self.files`, try block included.               *)
(***************************************************************************)
LoopBody(file, fetch, texts, chunks, failAt, acc, n) ==
    IF SuffixRaises(file.type) \/ fetch = "raise"
    THEN [doc_chunks |-> acc, uuid |-> n, raised |-> TRUE]
    ELSE LET document == generate_document(file, texts, n + 1)
         IN  IF document.none
             THEN [doc_chunks |-> acc, uuid |-> n, raised |-> FALSE]
             ELSE WrapChunks(file, document.id, chunks, failAt, 1, n + 1, acc)

\* except Exception as e: logger.error(...) -- the loop goes on with the next file.
\* Faulty variant: the try block without its except clause.
ExceptionPropagatesWrong(raised) == raised
ExceptionPropagates(raised) == FALSE

\* History of one iteration, taken from what the collaborators did, not from
\* what the loop made of it: `failed` when the file has an unsupported type, its
\* download or partition raised, its text is empty or wrapping a chunk raised;
\* `threw` when one of these was an exception; `texts` the texts of the chunks of
\* a file that did not fail; lo..hi the positions of doc_chunks appended meanwhile.
LogEntry(file, fetch, texts, chunks, failAt, lo, hi) ==
    LET threw == \/ SuffixRaises(file.type)
                 \/ fetch = "raise"
                 \/ (Join(texts) # "" /\ failAt # 0)
        failed == threw \/ Join(texts) = ""
    IN  [file |-> file, failed |-> failed, threw |-> threw,
         texts |-> IF failed THEN <<>> ELSE [j \in 1..Len(chunks) |-> chunks[j].text],
         lo |-> lo, hi |-> hi]

InitChunks ==
    /\ files \in SeqUpTo(Files, MaxFiles)
    /\ fileIdx = 0
    /\ doc_chunks = <<>>
    /\ uuid = 0
    /\ fileLog = <<>>

IdleChunks ==
    /\ files = <<>>
    /\ fileIdx = 0
    /\ doc_chunks = <<>>
    /\ uuid = 0
    /\ fileLog = <<>>

\* One iteration of the loop over self.files.
ProcessFile ==
    /\ op = "generate_chunks" /\ pc = "run"
    /\ fileIdx < Len(files)
    /\ \E fetch \in {"ok", "raise"}, texts \in ElementLists, chunks \in ChunkLists :
       \E failAt \in 0..Len(chunks) :
          LET file == files[fileIdx + 1]
              r == LoopBody(file, fetch, texts, chunks, failAt, doc_chunks, uuid)
          IN  /\ doc_chunks' = r.doc_chunks
              /\ uuid' = r.uuid
              /\ fileIdx' = fileIdx + 1
              /\ pc' = IF ExceptionPropagates(r.raised) THEN "raised" ELSE "run"
              /\ fileLog' = Append(fileLog,
                    LogEntry(file, fetch, texts, chunks, failAt,
                             Len(doc_chunks) + 1, Len(r.doc_chunks)))
    /\ UNCHANGED <<op, files, embVars, sumVars, queryVars>>

\* return doc_chunks
ChunksReturn ==
    /\ op = "generate_chunks" /\ pc = "run"
    /\ fileIdx = Len(files)
    /\ pc' = "done"
    /\ UNCHANGED <<op, chunkVars, embVars, sumVars, queryVars>>

(***************************************************************************)
(* generate_embeddings                                                     *)
(***************************************************************************)
\* The chunk at position i of the input list; a list entry may also be None.
NoneDoc == [none |-> TRUE, id |-> "", content |-> "", metadata |-> [chunk_id |-> PyStr("")]]
DocAt(i, content) ==
    [none |-> FALSE, id |-> "chk_" \o ToString(i), content |-> content,
     metadata |-> [chunk_id |-> PyStr("chk_" \o ToString(i))]]

DocumentLists ==
    UNION { { d \in [1..n -> {NoneDoc} \cup {DocAt(i, c) : i \in 1..n, c \in {"a", "b"}}] :
                \A i \in 1..n : d[i].none \/ d[i].id = "chk_" \o ToString(i) }
            : n \in 0..MaxDocs }

\* encoder([document.content]): the vectors the encoder hands back for one text.
EncoderOutput(content) == IF content = "a" THEN << <<1, 2>> >> ELSE << <<3, 4>> >>

\* np.array(e) and ndarray.tolist()
NpArray(e) == [shape |-> Len(e), data |-> [j \in 1..Len(e) |-> e[j]]]
ToList(arr) == [j \in 1..arr.shape |-> arr.data[j]]

\* A task's return value: None, or the tuple (id, vector, metadata).
ReturnNone == [none |-> TRUE, rec |-> <<>>]
ReturnRecord(id, vector, metadata) == [none |-> FALSE, rec |-> <<id, vector, metadata>>]

\* generate_embedding: outcome is what the encoder call does: "ok" hands back
\* one vector per text, "empty" an empty list (embeddings[0] raises IndexError),
\* "raise" raises.  [raised |-> TRUE] is the exception leaving the function.
generate_embedding(document, outcome) ==
    IF document.none THEN [raised |-> FALSE, value |-> ReturnNone]
    ELSE IF outcome # "ok" THEN [raised |-> TRUE, value |-> ReturnNone]
    ELSE LET embs == [j \in 1..Len(EncoderOutput(document.content)) |->
                         NpArray(EncoderOutput(document.content)[j])]
         IN  [raised |-> FALSE,
              value |-> ReturnRecord(document.id, ToList(embs[1]), document.metadata)]

\* Faulty variant: a failed chunk yields a record with an empty vector instead of None.
safe_generate_embedding_wrong(document, outcome) ==
    LET r == generate_embedding(document, outcome)
    IN  IF r.raised THEN ReturnRecord(document.id, <<>>, document.metadata) ELSE r.value

\* safe_generate_embedding: except Exception -> log and return None.
safe_generate_embedding(document, outcome) ==
    LET r == generate_embedding(document, outcome)
    IN  IF r.raised THEN ReturnNone ELSE r.value

\* embeddings = [e for e in embeddings if e is not None]
FilterNone(results) ==
    LET kept == SelectSeq(results, LAMBDA e : ~e.none)
    IN  [j \in 1..Len(kept) |-> kept[j].rec]

\* Faulty variant: resumes as soon as one task has finished.
GatherDoneWrong == \E i \in DOMAIN slots : slots[i].st = "done"
\* await asyncio.gather(*tasks): resumes when every task has finished.
GatherDone == \A i \in DOMAIN slots : slots[i].st = "done"

\* Faulty variant: the commit block without its guard.
CommitNeededWrong(embs) == TRUE
\* if embeddings:
CommitNeeded(embs) == embs # <<>>

\* Faulty variant: the upsert error is logged and swallowed.
UpsertErrorReraisedWrong(outcome) == FALSE
\* except Exception as e: logger.error(...); raise Exception(...)
UpsertErrorReraised(outcome) == outcome = "raise"

InitEmbeddings ==
    /\ documents \in DocumentLists
    /\ slots = [i \in DOMAIN documents |-> [st |-> "pending", ret |-> ReturnNone]]
    /\ encLog = [i \in DOMAIN documents |-> "pending"]
    /\ taskOrder = <<>>
    /\ vsBuilt = 0
    /\ upserts = <<>>
    /\ upsertLog = "none"
    /\ embeddings = <<>>

IdleEmbeddings ==
    /\ documents = <<>>
    /\ slots = <<>>
    /\ encLog = <<>>
    /\ taskOrder = <<>>
    /\ vsBuilt = 0
    /\ upserts = <<>>
    /\ upsertLog = "none"
    /\ embeddings = <<>>

\* One task of the gather runs safe_generate_embedding(documents[i]) to its end.
EmbedTask(i) ==
    /\ op = "generate_embeddings" /\ pc = "run"
    /\ i \in DOMAIN slots
    /\ slots[i].st = "pending"
    /\ \E outcome \in {"ok", "empty", "raise"} :
          /\ slots' = [slots EXCEPT ![i] =
                [st |-> "done", ret |-> safe_generate_embedding(documents[i], outcome)]]
          /\ encLog' = [encLog EXCEPT ![i] =
                IF ~documents[i].none /\ outcome = "ok" THEN "ok" ELSE "failed"]
          /\ taskOrder' = Append(taskOrder, i)
    /\ UNCHANGED <<op, pc, chunkVars, sumVars, queryVars,
                   documents, vsBuilt, upserts, upsertLog, embeddings>>

\* Everything after the gather: filter, commit, return.  vs is what
\* get_vector_service does, up what vector_service.upsert does.
Commit ==
    /\ op = "generate_embeddings" /\ pc = "run"
    /\ GatherDone
    /\ LET embs == FilterNone([i \in DOMAIN slots |-> slots[i].ret])
       IN  IF ~CommitNeeded(embs)
           THEN /\ embeddings' = embs
                /\ pc' = "done"
                /\ UNCHANGED <<vsBuilt, upserts, upsertLog>>
           ELSE \E vs \in {"ok", "raise"}, up \in {"ok", "raise"} :
                /\ vsBuilt' = vsBuilt + 1
                /\ IF vs = "raise"
                   THEN /\ pc' = "raised"
                        /\ UNCHANGED <<upserts, upsertLog, embeddings>>
                   ELSE /\ upserts' = Append(upserts, embs)
                        /\ upsertLog' = up
                        /\ IF UpsertErrorReraised(up)
                           THEN pc' = "raised" /\ UNCHANGED embeddings
                           ELSE pc' = "done" /\ embeddings' = embs
    /\ UNCHANGED <<op, chunkVars, sumVars, queryVars, documents, slots, encLog, taskOrder>>

(***************************************************************************)
(* generate_summary_documents                                              *)
(***************************************************************************)
\* page_number is an int or None.
PageNumbers == {"None", "1", "2"}
SummaryInputs == [content : {"a", "b"}, page_number : PageNumbers]

\* completion(document=doc): the summarizer's answer for a chunk.
completion(document) == "S(" \o document.content \o ")"

\* `page_number in pages` and pages[page_number]
InPages(dict, page_number) == \E k \in DOMAIN dict : dict[k][1] = page_number
PagesGet(dict, page_number) == (CHOOSE k \in DOMAIN dict : dict[k][1] = page_number)

\* Faulty variant: the chunk itself is used instead of a copy.
DeepCopyAlias(h, ref) == [heap |-> h, ref |-> ref]
\* copy.deepcopy(document): a new object with equal fields.
DeepCopy(h, ref) == [heap |-> Append(h, h[ref]), ref |-> Len(h) + 1]

InitSummary ==
    /\ inputs \in SeqUpTo(SummaryInputs, MaxSummaryDocs)
    /\ heap = inputs
    /\ sdocs = [i \in DOMAIN inputs |-> i]
    /\ sIdx = 0
    /\ pages = <<>>
    /\ summLog = <<>>
    /\ summary_documents = <<>>

IdleSummary ==
    /\ inputs = <<>>
    /\ heap = <<>>
    /\ sdocs = <<>>
    /\ sIdx = 0
    /\ pages = <<>>
    /\ summLog = <<>>
    /\ summary_documents = <<>>

\* One iteration of `for document in documents`; out is what completion() does.
SummaryStep ==
    /\ op = "generate_summary_documents" /\ pc = "run"
    /\ sIdx < Len(sdocs)
    /\ LET document == sdocs[sIdx + 1]
           page_number == heap[document].page_number
       IN  IF ~InPages(pages, page_number)
           THEN \E out \in {"ok", "raise"} :
                LET c == DeepCopy(heap, document)
                    doc == c.ref
                IN  /\ summLog' = Append(summLog, <<sIdx + 1, c.heap[doc].content>>)
                    /\ IF out = "raise"
                       THEN /\ pc' = "raised"
                            /\ heap' = c.heap
                            /\ UNCHANGED <<pages, sIdx>>
                       ELSE /\ heap' = [c.heap EXCEPT ![doc].content = completion(c.heap[doc])]
                            /\ pages' = Append(pages, <<page_number, doc>>)
                            /\ sIdx' = sIdx + 1
                            /\ pc' = "run"
           ELSE /\ heap' = [heap EXCEPT ![pages[PagesGet(pages, page_number)][2]].content =
                                @ \o heap[document].content]
                /\ sIdx' = sIdx + 1
                /\ UNCHANGED <<pc, pages, summLog>>
    /\ UNCHANGED <<op, chunkVars, embVars, queryVars, sdocs, inputs, summary_documents>>

\* summary_documents = list(pages.values()); return summary_documents
SummaryReturn ==
    /\ op = "generate_summary_documents" /\ pc = "run"
    /\ sIdx = Len(sdocs)
    /\ summary_documents' = [k \in DOMAIN pages |-> pages[k][2]]
    /\ pc' = "done"
    /\ UNCHANGED <<op, chunkVars, embVars, queryVars, heap, sdocs, inputs, sIdx, pages, summLog>>

(***************************************************************************)
(* query and get_documents                                                 *)
(***************************************************************************)
\* top_k=5 in get_documents
TopK == 5
SUMMARY_SUFFIX == "summary"

Payloads == [input : {"Summarize", "hello"}, index_name : {"idx", "docs"}]

\* What the route layer can answer: the one route's name, or None.
Decisions == {"summarize", "None"}

\* What the store can hand back: at most top_k candidates; rerank hands back
\* a list of candidates in the order it chooses.
Candidates == {"d1", "d2"}
Min(a, b) == IF a < b THEN a ELSE b
QueryOutputs == SeqUpTo(Candidates, Min(MaxCandidates, TopK))
RerankOutputs == SeqUpTo(Candidates, MaxCandidates)

\* Faulty variant: the comparison inverted.
IsSummarizeWrong(d) == d # "summarize"
\* if decision == "summarize":
IsSummarize(d) == d = "summarize"

\* The index_name argument of get_vector_service in either branch of query().
ResolveIndex(index_name, d) ==
    IF IsSummarize(d) THEN index_name \o SUMMARY_SUFFIX ELSE index_name

\* Faulty variant: the empty check never taken.
NoChunksWrong(cs) == FALSE
\* if not len(chunks):
NoChunks(cs) == Len(cs) = 0

InitQuery ==
    /\ payload \in Payloads
    /\ qstep = "route"
    /\ decision = "unset"
    /\ services = <<>>
    /\ storeCalls = <<>>
    /\ candidates = <<>>
    /\ reranked = <<>>

IdleQuery ==
    /\ payload = [input |-> "", index_name |-> ""]
    /\ qstep = "end"
    /\ decision = "unset"
    /\ services = <<>>
    /\ storeCalls = <<>>
    /\ candidates = <<>>
    /\ reranked = <<>>

\* query() up to the call of get_documents: route, then build the vector service.
Route ==
    /\ op = "query" /\ pc = "run" /\ qstep = "route"
    /\ \E d \in Decisions :
          /\ decision' = d
          /\ services' = Append(services, ResolveIndex(payload.index_name, d))
    /\ qstep' = "query"
    /\ UNCHANGED <<op, pc, chunkVars, embVars, sumVars, payload, storeCalls, candidates, reranked>>

\* get_documents up to its second await: the store's query and the empty check.
QueryStore ==
    /\ op = "query" /\ pc = "run" /\ qstep = "query"
    /\ \E out \in {"ok", "raise"}, cs \in QueryOutputs :
          /\ storeCalls' = Append(storeCalls,
                [fn |-> "query", service |-> Len(services), input |-> payload.input,
                 top_k |-> TopK, documents |-> <<>>, raised |-> out = "raise",
                 output |-> IF out = "ok" THEN cs ELSE <<>>])
          /\ IF out = "raise"
             THEN pc' = "raised" /\ qstep' = "end" /\ UNCHANGED <<candidates, reranked>>
             ELSE /\ candidates' = cs
                  /\ IF NoChunks(cs)
                     THEN pc' = "done" /\ qstep' = "end" /\ reranked' = <<>>
                     ELSE pc' = "run" /\ qstep' = "rerank" /\ UNCHANGED reranked
    /\ UNCHANGED <<op, chunkVars, embVars, sumVars, payload, decision, services>>

\* The rest of get_documents: rerank and return.
Rerank ==
    /\ op = "query" /\ pc = "run" /\ qstep = "rerank"
    /\ \E out \in {"ok", "raise"}, rs \in RerankOutputs :
          /\ storeCalls' = Append(storeCalls,
                [fn |-> "rerank", service |-> Len(services), input |-> payload.input,
                 top_k |-> TopK, documents |-> candidates, raised |-> out = "raise",
                 output |-> IF out = "ok" THEN rs ELSE <<>>])
          /\ IF out = "raise"
             THEN pc' = "raised" /\ UNCHANGED reranked
             ELSE pc' = "done" /\ reranked' = rs
    /\ qstep' = "end"
    /\ UNCHANGED <<op, chunkVars, embVars, sumVars, payload, decision, services, candidates>>

Init ==
    /\ op \in {"generate_chunks", "generate_embeddings", "generate_summary_documents", "query"}
    /\ pc = "run"
    /\ IF op = "generate_chunks" THEN InitChunks ELSE IdleChunks
    /\ IF op = "generate_embeddings" THEN InitEmbeddings ELSE IdleEmbeddings
    /\ IF op = "generate_summary_documents" THEN InitSummary ELSE IdleSummary
    /\ IF op = "query" THEN InitQuery ELSE IdleQuery

Next ==
    \/ ProcessFile
    \/ ChunksReturn
    \/ \E i \in 1..MaxDocs : EmbedTask(i)
    \/ Commit
    \/ SummaryStep
    \/ SummaryReturn
    \/ Route
    \/ QueryStore
    \/ Rerank

Spec == Init /\ [][Next]_vars

(***************************************************************************)
(* Properties of generate_embeddings.                                      *)
(***************************************************************************)
InEmbeddings == op = "generate_embeddings"

RECURSIVE SucceededRecords(_)
\* The records of the chunks at positions 1..k whose encoder call succeeded, in
\* input order, built from the encoder's own output.
SucceededRecords(k) ==
    IF k = 0 THEN <<>>
    ELSE IF encLog[k] = "ok"
         THEN Append(SucceededRecords(k - 1),
                     <<documents[k].id, EncoderOutput(documents[k].content)[1],
                       documents[k].metadata>>)
         ELSE SucceededRecords(k - 1)

FailedChunks == {i \in DOMAIN encLog : encLog[i] = "failed"}

\* C1: whatever subset of encoder calls fails and in whatever order the tasks
\* finish, the list generate_embeddings returns is exactly the records of the
\* chunks whose encoder call succeeded, in input order; every task ran, a
\* failing chunk is absent, and one failure leaves batch_size - 1 records.
C1_PerChunkIsolation ==
    (InEmbeddings /\ pc = "done") =>
        /\ \A i \in DOMAIN encLog : encLog[i] # "pending"
        /\ embeddings = SucceededRecords(Len(documents))
        /\ \A i \in FailedChunks : \A j \in DOMAIN embeddings :
              embeddings[j][1] # "chk_" \o ToString(i)
        /\ Cardinality(FailedChunks) = 1 => Len(embeddings) = Len(documents) - 1

\* A batch of three whose middle chunk failed, the tasks finishing out of order.
C1_Witness ==
    /\ InEmbeddings /\ pc = "done"
    /\ Len(documents) = 3
    /\ \A i \in 1..3 : ~documents[i].none
    /\ encLog = <<"ok", "failed", "ok">>
    /\ taskOrder = <<3, 1, 2>>
    /\ Len(embeddings) = 2

\* C2: once the upsert call has raised, generate_embeddings has raised: it
\* never returns a list after a failed upsert.
C2_UpsertFailureTerminal ==
    (InEmbeddings /\ upsertLog = "raise") => (pc = "raised" /\ embeddings = <<>>)

\* The upsert of a batch of two raised.
C2_Witness ==
    /\ InEmbeddings /\ upsertLog = "raise" /\ pc = "raised"
    /\ Len(upserts) = 1 /\ Len(upserts[1]) = 2

\* C3: with no successfully embedded record (empty input, or every encoder
\* call failed) generate_embeddings returns [] without raising, without
\* building the vector service and without an upsert.
C3_NothingToCommit ==
    (InEmbeddings /\ pc # "run" /\ \A i \in DOMAIN encLog : encLog[i] # "ok") =>
        /\ pc = "done"
        /\ embeddings = <<>>
        /\ vsBuilt = 0
        /\ upserts = <<>>

\* Two chunks, both encoder calls failed, and the call has returned.
C3_Witness ==
    /\ InEmbeddings /\ pc = "done"
    /\ Len(documents) = 2
    /\ \A i \in 1..2 : ~documents[i].none /\ encLog[i] = "failed"

\* C9: the store is written by at most one upsert call, made only after every
\* task has finished, with exactly the batch that is returned on success;
\* while the call is still running before that step nothing has been written.
C9_SingleCommitAfterBarrier ==
    InEmbeddings =>
        /\ Len(upserts) <= 1
        /\ (upserts # <<>> \/ vsBuilt > 0) => \A i \in DOMAIN slots : slots[i].st = "done"
        /\ pc = "run" => upserts = <<>>
        /\ pc = "done" => (IF embeddings = <<>> THEN upserts = <<>> ELSE upserts = <<embeddings>>)

\* A run that committed two records out of three chunks.
C9_Witness ==
    /\ InEmbeddings /\ pc = "done"
    /\ Len(documents) = 3 /\ Len(upserts) = 1 /\ Len(upserts[1]) = 2

(***************************************************************************)
(* Properties of query / get_documents.                                    *)
(***************************************************************************)
InQuery == op = "query"

\* C4: when the store's query(input, top_k=5) returns no candidate the
\* pipeline returns [] without raising and rerank is not called; rerank is
\* called only on a non-empty candidate list, and its output is what is returned.
C4_EmptyQuerySkipsRerank ==
    InQuery =>
        /\ \A k \in DOMAIN storeCalls :
              /\ storeCalls[k].fn = (IF k = 1 THEN "query" ELSE "rerank")
              /\ storeCalls[k].input = payload.input
              /\ storeCalls[k].fn = "query" => storeCalls[k].top_k = 5
              /\ storeCalls[k].fn = "rerank" =>
                    /\ storeCalls[1].output # <<>>
                    /\ storeCalls[k].documents = storeCalls[1].output
        /\ (Len(storeCalls) >= 1 /\ ~storeCalls[1].raised /\ storeCalls[1].output = <<>>) =>
              /\ pc = "done"
              /\ reranked = <<>>
              /\ Len(storeCalls) = 1
        /\ (pc = "done" /\ Len(storeCalls) = 2) => reranked = storeCalls[2].output

\* The store answered the query with no candidate and the request has returned.
C4_Witness ==
    /\ InQuery /\ pc = "done"
    /\ Len(storeCalls) = 1 /\ ~storeCalls[1].raised /\ storeCalls[1].output = <<>>

\* C5: one vector store is built per request, for the primary index name with
\* the summary suffix appended exactly when the decision is "summarize", and
\* the query and the rerank call both go to that instance.
C5_IndexSelection ==
    (InQuery /\ qstep # "route") =>
        /\ Len(services) = 1
        /\ decision = "summarize" =>
              /\ services[1] = payload.index_name \o SUMMARY_SUFFIX
              /\ services[1] # payload.index_name
        /\ decision # "summarize" => services[1] = payload.index_name
        /\ \A k \in DOMAIN storeCalls : storeCalls[k].service = 1

\* A "summarize" request that queried and reranked.
C5_Witness ==
    /\ InQuery /\ decision = "summarize" /\ pc = "done"
    /\ Len(storeCalls) = 2

(***************************************************************************)
(* Properties of generate_chunks.                                          *)
(***************************************************************************)
InChunks == op = "generate_chunks"

\* C6: every chunk generate_chunks builds has metadata["chunk_id"] = id,
\* metadata["document_id"] = document_id and metadata["content"] = content,
\* whatever the element metadata.
C6_MetadataMirrorsChunk ==
    InChunks =>
        \A k \in DOMAIN doc_chunks :
            /\ doc_chunks[k].metadata["chunk_id"] = PyStr(doc_chunks[k].id)
            /\ doc_chunks[k].metadata["document_id"] = PyStr(doc_chunks[k].document_id)
            /\ doc_chunks[k].metadata["content"] = PyStr(doc_chunks[k].content)

\* C7: whichever files fail, generate_chunks never raises, handles the files
\* one at a time in input order up to the last one, and its output holds, for
\* every file that did not fail, that file's chunks.
C7_FileFaultIsolation ==
    InChunks =>
        /\ pc # "raised"
        /\ Len(fileLog) = fileIdx
        /\ \A i \in DOMAIN fileLog : fileLog[i].file = files[i]
        /\ pc = "done" => fileIdx = Len(files)
        /\ \A i \in DOMAIN fileLog : ~fileLog[i].failed =>
              /\ fileLog[i].hi - fileLog[i].lo + 1 = Len(fileLog[i].texts)
              /\ fileLog[i].hi <= Len(doc_chunks)
              /\ \A j \in DOMAIN fileLog[i].texts :
                    /\ doc_chunks[fileLog[i].lo + j - 1].content = fileLog[i].texts[j]
                    /\ doc_chunks[fileLog[i].lo + j - 1].doc_url = fileLog[i].file.url

\* The first file raised, the second one went through with two chunks.
C7_Witness ==
    /\ InChunks /\ pc = "done"
    /\ Len(files) = 2
    /\ fileLog[1].threw
    /\ ~fileLog[2].failed /\ Len(fileLog[2].texts) = 2
    /\ Len(doc_chunks) >= 2

\* C8: a file whose processing raised, at whatever point, has no chunk in the
\* returned list.
C8_FailedFileExcluded ==
    (InChunks /\ pc = "done") =>
        \A i \in DOMAIN fileLog : fileLog[i].threw => fileLog[i].hi < fileLog[i].lo

(***************************************************************************)
(* Properties of generate_summary_documents.                               *)
(***************************************************************************)
InSummary == op = "generate_summary_documents"

\* The positions of the chunks that are the first of their page.
Seeds == {i \in DOMAIN inputs : \A j \in 1..(i - 1) : inputs[j].page_number # inputs[i].page_number}

RECURSIVE LaterContent(_, _)
\* The contents, in input order, of the chunks after position `seed` and up to
\* position k that are on the page of `seed`.
LaterContent(seed, k) ==
    IF k <= seed THEN ""
    ELSE IF inputs[k].page_number = inputs[seed].page_number
         THEN LaterContent(seed, k - 1) \o inputs[k].content
         ELSE LaterContent(seed, k - 1)

\* C10: generate_summary_documents returns one chunk per distinct page_number,
\* calls the summarizer once per page, on the first chunk of the page only,
\* gives each returned chunk the summary followed by the raw content of the
\* later chunks of its page in input order, and leaves the passed chunks as
\* they were.
C10_OneSummaryPerPage ==
    (InSummary /\ pc = "done") =>
        /\ Len(summary_documents) = Cardinality({inputs[i].page_number : i \in DOMAIN inputs})
        /\ Len(summLog) = Len(summary_documents)
        /\ {summLog[k][1] : k \in DOMAIN summLog} = Seeds
        /\ \A k \in DOMAIN summLog :
              /\ summLog[k][2] = inputs[summLog[k][1]].content
              /\ \A m \in DOMAIN summLog : k < m => summLog[k][1] < summLog[m][1]
              /\ heap[summary_documents[k]].page_number = inputs[summLog[k][1]].page_number
              /\ heap[summary_documents[k]].content =
                    completion(inputs[summLog[k][1]])
                        \o LaterContent(summLog[k][1], Len(inputs))
        /\ \A i \in DOMAIN sdocs : heap[sdocs[i]] = inputs[i]

\* Three chunks, the first and the third on one page, the second on another.
C10_Witness ==
    /\ InSummary /\ pc = "done"
    /\ Len(inputs) = 3
    /\ inputs[1].page_number = inputs[3].page_number
    /\ inputs[2].page_number # inputs[1].page_number
    /\ Len(summary_documents) = 2
====
